---- MODULE Spec2Model ----
(***************************************************************************)
(* State-machine model of assets/js/script.js, the interaction layer of    *)
(* the portfolio page: the start-up sequence (initPortfolio and the loader *)
(* listener), and the event handlers the script registers.  The DOM class  *)
(* lists are the state; every handler is one atomic action, because the    *)
(* browser runs each callback to completion.                               *)
(***************************************************************************)
EXTENDS Integers, Sequences, FiniteSets, TLC

\* ------------------------------------------------------------------ bounds

\* At most this many of the required elements are absent from the markup.
MaxMissing == 1

\* ------------------------------------------------------------------- text

UpperLetters ==
  <<"A","B","C","D","E","F","G","H","I","J","K","L","M",
    "N","O","P","Q","R","S","T","U","V","W","X","Y","Z">>

LowerLetters ==
  <<"a","b","c","d","e","f","g","h","i","j","k","l","m",
    "n","o","p","q","r","s","t","u","v","w","x","y","z">>

\* One character of String.prototype.toLowerCase.
LowerChar(ch) ==
  IF \E k \in DOMAIN UpperLetters : UpperLetters[k] = ch
  THEN LowerLetters[CHOOSE k \in DOMAIN UpperLetters : UpperLetters[k] = ch]
  ELSE ch

\* String.prototype.toLowerCase on a text given as a sequence of characters.
toLowerCase(text) == [k \in DOMAIN text |-> LowerChar(text[k])]

\* ----------------------------------------------------------------- markup

\* The elements an initializer or the loader path dereferences; the other
\* registry entries are taken to be present (the markup contract).
RequiredElements == {"toggleBtn", "closeBtn", "overlay", "select", "loader"}

MissingSets == {m \in SUBSET RequiredElements : Cardinality(m) <= MaxMissing}

\* Option and button labels of the category filter, in document order.
SelectItemTexts ==
  << <<"A","l","l">>, <<"W","e","b">>, <<"A","P","P","S">> >>

FilterBtnTexts ==
  << <<"A","l","l">>, <<"W","e","b">>, <<"A","P","P","S">> >>

\* The label [data-selecct-value] shows before any selection.
InitialSelectValue == <<"S","e","l","e","c","t">>

\* Values a filter item's data-category attribute takes.
Categories == { <<"w","e","b">>, <<"a","p","p","s">>, <<"W","e","b">> }

\* Number of [data-filter-item] elements.
NumFilterItems == 2

\* The [data-technologies-item] elements: the avatar's src attribute (a
\* relative or an absolute URL), its alt text, the title and text markup.
TechItems ==
  << [src   |-> [abs |-> FALSE, path |-> "react.svg"],
      alt   |-> "React",
      title |-> "<b>React</b>",
      text  |-> "<p>Components</p>"],
     [src   |-> [abs |-> TRUE, path |-> "flutter.png"],
      alt   |-> "Flutter",
      title |-> "Flutter",
      text  |-> "<p>Mobile</p>"] >>

\* What the modal holds before the first click.
InitialModalContent ==
  [src |-> [abs |-> TRUE, path |-> ""], alt |-> "", title |-> "", text |-> ""]

\* Texts of the [data-nav-link] elements and values of data-page.
LinkTexts == { <<"A","b","o","u","t">>, <<"B","l","o","g">> }

PageNames == { <<"a","b","o","u","t">>, <<"b","l","o","g">> }

\* At most this many nav links.
MaxNav == 2

\* At most this many page sections.
MaxPages == 3

NavLinkMarkups == UNION {[1..n -> LinkTexts] : n \in 1..MaxNav}

PageMarkups == UNION {[1..n -> PageNames] : n \in 1..MaxPages}

\* Number of [data-form-input] fields of the contact form.
NumFormInputs == 2

\* Number of .service-item elements.
NumServiceItems == 1

\* The elements the scroll animation reveals: every .service-item and every
\* .technologies-item, each with its index in its own collection.
RevealItems ==
  {<<"service", k>> : k \in 0..(NumServiceItems - 1)}
    \cup {<<"technologies", k>> : k \in 0..(Len(TechItems) - 1)}

\* A reveal item before the animation set-up touches it.
Unstyled == [cls |-> "none", opacity |-> "unset", delay |-> 0]

\* The entry lists an observer callback can receive: some of the observed
\* elements, each reported as intersecting or not.
EntryLists == UNION {[S -> BOOLEAN] : S \in (SUBSET RevealItems) \ {{}}}

\* window.scrollTo(0, 0) and a position further down the page.
Origin == <<0, 0>>

ScrolledDown == <<0, 1>>

VARIABLES
  missing,            \* the required elements the document does not contain
  scriptRun,          \* the script's top level has been evaluated
  handlers,           \* the listeners registered so far
  errors,             \* the places that raised an uncaught TypeError
  domReady,           \* DOMContentLoaded has been dispatched
  loadFired,          \* the window load event has been dispatched
  timer,              \* the fallback timer: "unset", "pending", "fired"
  loaderHidden,       \* .page-loader carries "hidden"
  loaderAddCalls,     \* how often classList.add("hidden") ran on the loader
  sidebarActive,      \* [data-sidebar] carries "active"
  sidebarInitial,     \* history: the marker [data-sidebar] started with
  sidebarOdd,         \* history: the toggle was clicked an odd number of times
  modalActive,        \* [data-modal-container] carries "active"
  overlayActive,      \* [data-overlay] carries "active"
  modalContent,       \* the modal image's src and alt, title and text markup
  clickedItem,        \* history: the technology item clicked last (0: none)
  modalStartAgreed,   \* history: modal and overlay started with equal markers
  selectActive,       \* [data-select] carries "active"
  selectValueText,    \* innerText of [data-selecct-value]
  filterItemCategory, \* data-category of each [data-filter-item]
  filterItemActive,   \* which filter items carry "active"
  filterBtnActive,    \* which filter buttons carry "active"
  activeFilterBtn,    \* let activeFilterBtn (0: not yet assigned)
  clickedFilterBtn,   \* history: the filter button clicked last (0: none)
  navLinkText,        \* innerHTML of each [data-nav-link]
  pageName,           \* data-page of each [data-page]
  navLinkActive,      \* which nav links carry "active"
  pageActive,         \* which page sections carry "active"
  scrollPos,          \* the viewport's scroll position
  fieldValid,         \* validity of each [data-form-input] field
  submitDisabled,     \* [data-form-btn].disabled
  observing,          \* the intersection observer watches the reveal items
  revealStyle,        \* animation class, opacity and delay of each reveal item
  visible,            \* which reveal items carry "visible"
  lastEntries,        \* history: the entries of the last observer callback
  lastEvent,          \* history: the event whose handler ran last
  lastArg             \* history: index of the element it was dispatched on

startupVars == <<missing, scriptRun, handlers, errors, domReady>>

loaderVars == <<loadFired, timer, loaderHidden, loaderAddCalls>>

sidebarHist == <<sidebarInitial, sidebarOdd>>

modalVars ==
  <<modalActive, overlayActive, modalContent, clickedItem, modalStartAgreed>>

formVars == <<fieldValid, submitDisabled>>

revealVars == <<observing, revealStyle, visible, lastEntries>>

filterVars ==
  <<selectValueText, filterItemCategory, filterItemActive, filterBtnActive,
    activeFilterBtn, clickedFilterBtn>>

navVars == <<navLinkText, pageName, navLinkActive, pageActive, scrollPos>>

vars ==
  <<missing, scriptRun, handlers, errors, domReady, loadFired, timer,
    loaderHidden, loaderAddCalls, sidebarActive, modalActive, overlayActive,
    modalContent, clickedItem, selectActive, selectValueText,
    filterItemCategory, filterItemActive, filterBtnActive, activeFilterBtn,
    clickedFilterBtn, navLinkText, pageName, navLinkActive, pageActive,
    scrollPos, lastEvent, lastArg, sidebarInitial, sidebarOdd,
    modalStartAgreed, fieldValid, submitDisabled, observing, revealStyle,
    visible, lastEntries>>

\* ---------------------------------------------------------------- startup

\* The state an initializer works on: the listeners registered so far,
\* whether a TypeError was raised, and the closure variable activeFilterBtn.
NoHandlers == [regs |-> {}, raised |-> FALSE, activeFilterBtn |-> 0]

\* toggleBtn.addEventListener raises on a null toggleBtn.
initSidebar(st) ==
  IF "toggleBtn" \in missing
  THEN [st EXCEPT !.raised = TRUE]
  ELSE [st EXCEPT !.regs = @ \cup {"toggleBtn.click"}]

\* items.forEach registers first; then closeBtn, then overlay, each of which
\* raises when null, leaving the earlier listeners registered.
inittechnologiesModal(st) ==
  LET s1 == [st EXCEPT !.regs = @ \cup {"item.click"}]
      s2 == [s1 EXCEPT !.regs = @ \cup {"closeBtn.click"}]
  IN  IF "closeBtn" \in missing THEN [s1 EXCEPT !.raised = TRUE]
      ELSE IF "overlay" \in missing THEN [s2 EXCEPT !.raised = TRUE]
      ELSE [s2 EXCEPT !.regs = @ \cup {"overlay.click"}]

\* select.addEventListener raises on a null select, before anything else of
\* the filter is set up.
initFiltering(st) ==
  IF "select" \in missing
  THEN [st EXCEPT !.raised = TRUE]
  ELSE [st EXCEPT
          !.regs = @ \cup {"select.click", "selectItem.click", "filterBtn.click"},
          !.activeFilterBtn = 1]

initContactForm(st) == [st EXCEPT !.regs = @ \cup {"input.input"}]

initPageNavigation(st) == [st EXCEPT !.regs = @ \cup {"navLink.click"}]

initScrollAnimations(st) ==
  [st EXCEPT !.regs = @ \cup {"document.DOMContentLoaded.scroll"}]

\* The variant in which every initializer runs whatever the earlier ones did.
initPortfolioIsolated ==
  LET run(s) == [s EXCEPT !.raised = FALSE]
  IN  initScrollAnimations(initPageNavigation(initContactForm(run(
        initFiltering(run(inittechnologiesModal(run(
          initSidebar(NoHandlers)))))))))

\* The six initializers in sequence; an exception leaves the function.
initPortfolio ==
  LET s1 == initSidebar(NoHandlers)
      s2 == inittechnologiesModal(s1)
      s3 == initFiltering(s2)
  IN  IF s1.raised THEN s1
      ELSE IF s2.raised THEN s2
      ELSE IF s3.raised THEN s3
      ELSE initScrollAnimations(initPageNavigation(initContactForm(s3)))

\* The script's top level: initPortfolio(), then the loader's
\* DOMContentLoaded listener, which an exception before it skips.
script ==
  LET p == initPortfolio
  IN  IF p.raised THEN p
      ELSE [p EXCEPT !.regs = @ \cup {"document.DOMContentLoaded"}]

RunScript ==
  /\ ~scriptRun
  /\ scriptRun' = TRUE
  /\ handlers' = script.regs
  /\ errors' = IF script.raised THEN errors \cup {"script"} ELSE errors
  /\ activeFilterBtn' = script.activeFilterBtn
  /\ lastEvent' = "script"
  /\ lastArg' = 0
  /\ UNCHANGED <<formVars, revealVars,
                 missing, domReady, loaderVars, sidebarActive, sidebarHist, modalVars,
                 selectActive, selectValueText, filterItemCategory,
                 filterItemActive, filterBtnActive, clickedFilterBtn, navVars>>

\* Lines 218-233: the class, the opacity and the staggered delay (in tenths
\* of a second, 0.2 * index) each reveal item is given.
setupReveal ==
  [it \in RevealItems |->
     [cls      |-> IF it[1] = "service" THEN "slide-up" ELSE "fade-in",
      opacity  |-> "0",
      delay    |-> 2 * it[2]]]

\* The document's DOMContentLoaded event: the scroll-animation listener
\* styles the reveal items and has the observer watch them; the loader
\* listener registers the load listener and starts the 3000 ms timer.
DOMContentLoaded ==
  /\ scriptRun
  /\ ~domReady
  /\ domReady' = TRUE
  /\ IF "document.DOMContentLoaded.scroll" \in handlers
     THEN /\ observing' = TRUE
          /\ revealStyle' = setupReveal
     ELSE UNCHANGED <<observing, revealStyle>>
  /\ IF "document.DOMContentLoaded" \in handlers
     THEN /\ handlers' = handlers \cup {"window.load"}
          /\ timer' = "pending"
     ELSE UNCHANGED <<handlers, timer>>
  /\ lastEvent' = "DOMContentLoaded"
  /\ lastArg' = 0
  /\ UNCHANGED <<formVars, visible, lastEntries,
                 missing, scriptRun, errors, loadFired, loaderHidden,
                 loaderAddCalls, sidebarActive, sidebarHist, modalVars, selectActive,
                 filterVars, navVars>>

\* ----------------------------------------------------------------- loader

\* document.querySelector(".page-loader") as the two callbacks see it.
loader ==
  [present |-> "loader" \notin missing, hidden |-> loaderHidden,
   calls |-> loaderAddCalls, raised |-> FALSE]

\* The load listener: if (loader) loader.classList.add("hidden").
hideOnLoad(l) ==
  IF l.present THEN [l EXCEPT !.hidden = TRUE, !.calls = @ + 1] ELSE l

\* The timer callback without its own check of the hidden class.
hideOnTimeoutUnchecked(l) ==
  IF l.present THEN [l EXCEPT !.hidden = TRUE, !.calls = @ + 1] ELSE l

\* The timer callback that leaves the loader as it is.
hideOnTimeoutNever(l) == l

\* The timer callback: if (loader && !contains("hidden")) add("hidden").
hideOnTimeout(l) ==
  IF l.present /\ ~l.hidden
  THEN [l EXCEPT !.hidden = TRUE, !.calls = @ + 1]
  ELSE l

WindowLoad ==
  /\ domReady
  /\ ~loadFired
  /\ loadFired' = TRUE
  /\ LET l == IF "window.load" \in handlers THEN hideOnLoad(loader) ELSE loader
     IN  /\ loaderHidden' = l.hidden
         /\ loaderAddCalls' = l.calls
         /\ errors' = IF l.raised THEN errors \cup {"load"} ELSE errors
  /\ lastEvent' = "load"
  /\ lastArg' = 0
  /\ UNCHANGED <<formVars, revealVars,
                 missing, scriptRun, handlers, domReady, timer, sidebarActive, sidebarHist,
                 modalVars, selectActive, filterVars, navVars>>

TimerFire ==
  /\ timer = "pending"
  /\ timer' = "fired"
  /\ LET l == hideOnTimeout(loader)
     IN  /\ loaderHidden' = l.hidden
         /\ loaderAddCalls' = l.calls
         /\ errors' = IF l.raised THEN errors \cup {"timer"} ELSE errors
  /\ lastEvent' = "timer"
  /\ lastArg' = 0
  /\ UNCHANGED <<formVars, revealVars,
                 missing, scriptRun, handlers, domReady, loadFired,
                 sidebarActive, sidebarHist, modalVars, selectActive, filterVars, navVars>>

\* ---------------------------------------------------------------- sidebar

\* The helper that sets the marker whatever it was.
activateElement(active) == TRUE

\* elem.classList.toggle("active") on the element's marker.
toggleElementActive(active) == ~active

SidebarClick ==
  /\ "toggleBtn.click" \in handlers
  /\ sidebarActive' = toggleElementActive(sidebarActive)
  /\ sidebarOdd' = ~sidebarOdd
  /\ UNCHANGED sidebarInitial
  /\ lastEvent' = "toggleBtn.click"
  /\ lastArg' = 0
  /\ UNCHANGED <<formVars, revealVars,
                 startupVars, loaderVars, modalVars, selectActive, filterVars,
                 navVars>>

\* ------------------------------------------------------------------ modal

\* The src property of an image: the attribute resolved against the
\* document's base URL.
srcProperty(attr) == [attr EXCEPT !.abs = TRUE]

\* The copy that takes the title markup for the alt text.
copyItemAltFromTitle(item) ==
  [src |-> srcProperty(item.src), alt |-> item.title, title |-> item.title,
   text |-> item.text]

\* Lines 83-90: the four assignments from the clicked item's descendants.
copyItem(item) ==
  [src |-> srcProperty(item.src), alt |-> item.alt, title |-> item.title,
   text |-> item.text]

\* The toggle that flips the container and leaves the overlay.
toggleModalContainerOnly(m) == [m EXCEPT !.modal = ~@]

\* modal.container.classList.toggle, then overlay.classList.toggle, which
\* raises on a null overlay after the container has been toggled.
toggleModal(m) ==
  LET m1 == [m EXCEPT !.modal = ~@]
  IN  IF "overlay" \in missing
      THEN [m1 EXCEPT !.raised = TRUE]
      ELSE [m1 EXCEPT !.overlay = ~@]

modalMarkers == [modal |-> modalActive, overlay |-> overlayActive, raised |-> FALSE]

ItemClick(i) ==
  /\ "item.click" \in handlers
  /\ modalContent' = copyItem(TechItems[i])
  /\ LET m == toggleModal(modalMarkers)
     IN  /\ modalActive' = m.modal
         /\ overlayActive' = m.overlay
         /\ errors' = IF m.raised THEN errors \cup {"item.click"} ELSE errors
  /\ clickedItem' = i
  /\ lastEvent' = "item.click"
  /\ lastArg' = i
  /\ UNCHANGED <<formVars, revealVars, modalStartAgreed,
                 missing, scriptRun, handlers, domReady, loaderVars,
                 sidebarActive, sidebarHist, selectActive, filterVars, navVars>>

CloseBtnClick ==
  /\ "closeBtn.click" \in handlers
  /\ LET m == toggleModal(modalMarkers)
     IN  /\ modalActive' = m.modal
         /\ overlayActive' = m.overlay
         /\ errors' = IF m.raised THEN errors \cup {"closeBtn.click"} ELSE errors
  /\ lastEvent' = "closeBtn.click"
  /\ lastArg' = 0
  /\ UNCHANGED <<formVars, revealVars,
                 missing, scriptRun, handlers, domReady, loaderVars,
                 sidebarActive, sidebarHist, modalContent, clickedItem,
                 modalStartAgreed, selectActive,
                 filterVars, navVars>>

OverlayClick ==
  /\ "overlay.click" \in handlers
  /\ LET m == toggleModal(modalMarkers)
     IN  /\ modalActive' = m.modal
         /\ overlayActive' = m.overlay
         /\ errors' = IF m.raised THEN errors \cup {"overlay.click"} ELSE errors
  /\ lastEvent' = "overlay.click"
  /\ lastArg' = 0
  /\ UNCHANGED <<formVars, revealVars,
                 missing, scriptRun, handlers, domReady, loaderVars,
                 sidebarActive, sidebarHist, modalContent, clickedItem,
                 modalStartAgreed, selectActive,
                 filterVars, navVars>>

\* ----------------------------------------------------------------- filter

SelectClick ==
  /\ "select.click" \in handlers
  /\ selectActive' = toggleElementActive(selectActive)
  /\ lastEvent' = "select.click"
  /\ lastArg' = 0
  /\ UNCHANGED <<formVars, revealVars,
                 startupVars, loaderVars, sidebarActive, sidebarHist, modalVars, filterVars,
                 navVars>>

\* The literal the filter compares against.
All == <<"a","l","l">>

\* The filter that adds the marker but never removes it.
filterByCategoryAddOnly(selectedValue, active) ==
  [k \in DOMAIN active |->
     IF selectedValue = All \/ selectedValue = filterItemCategory[k]
     THEN TRUE
     ELSE active[k]]

\* filterItems.forEach: classList.add or classList.remove on every item.
filterByCategory(selectedValue, active) ==
  [k \in DOMAIN active |->
     IF selectedValue = All \/ selectedValue = filterItemCategory[k]
     THEN TRUE
     ELSE FALSE]

SelectItemClick(i) ==
  /\ "selectItem.click" \in handlers
  /\ LET selectedValue == toLowerCase(SelectItemTexts[i])
     IN  /\ selectValueText' = SelectItemTexts[i]
         /\ selectActive' = toggleElementActive(selectActive)
         /\ filterItemActive' = filterByCategory(selectedValue, filterItemActive)
  /\ lastEvent' = "selectItem.click"
  /\ lastArg' = i
  /\ UNCHANGED <<formVars, revealVars,
                 startupVars, loaderVars, sidebarActive, sidebarHist, modalVars,
                 filterItemCategory, filterBtnActive, activeFilterBtn,
                 clickedFilterBtn, navVars>>

\* The update that highlights the clicked button and leaves the old one.
highlightKeepOld(btnActive, old, clicked) ==
  [btnActive EXCEPT ![clicked] = TRUE]

\* activeFilterBtn.classList.remove("active"); this.classList.add("active").
highlight(btnActive, old, clicked) ==
  [[btnActive EXCEPT ![old] = FALSE] EXCEPT ![clicked] = TRUE]

\* The button click that leaves the dropdown's label as it was.
FilterBtnClickKeepLabel(i) ==
  /\ "filterBtn.click" \in handlers
  /\ LET selectedValue == toLowerCase(FilterBtnTexts[i])
     IN  filterItemActive' = filterByCategory(selectedValue, filterItemActive)
  /\ filterBtnActive' = highlight(filterBtnActive, activeFilterBtn, i)
  /\ activeFilterBtn' = i
  /\ clickedFilterBtn' = i
  /\ lastEvent' = "filterBtn.click"
  /\ lastArg' = i
  /\ UNCHANGED <<formVars, revealVars, startupVars, loaderVars,
                 sidebarActive, sidebarHist, modalVars, selectActive,
                 selectValueText, filterItemCategory, navVars>>

FilterBtnClick(i) ==
  /\ "filterBtn.click" \in handlers
  /\ LET selectedValue == toLowerCase(FilterBtnTexts[i])
     IN  /\ selectValueText' = FilterBtnTexts[i]
         /\ filterItemActive' = filterByCategory(selectedValue, filterItemActive)
  /\ filterBtnActive' = highlight(filterBtnActive, activeFilterBtn, i)
  /\ activeFilterBtn' = i
  /\ clickedFilterBtn' = i
  /\ lastEvent' = "filterBtn.click"
  /\ lastArg' = i
  /\ UNCHANGED <<formVars, revealVars,
                 startupVars, loaderVars, sidebarActive, sidebarHist, modalVars,
                 selectActive, filterItemCategory, navVars>>

\* ------------------------------------------------------------- navigation

\* The target name taken from the link's text as it is written.
clickedPageNameRaw(i) == navLinkText[i]

\* const clickedPageName = this.innerHTML.toLowerCase().
clickedPageName(i) == toLowerCase(navLinkText[i])

\* The walk that sets every page's marker and touches no link.
walkPagesPagesOnly(j, target, st) ==
  [st EXCEPT !.pages = [k \in DOMAIN pageName |-> target = pageName[k]]]

\* The walk that also clears the links beyond the last page.
walkPagesAllLinks(j, target, st) ==
  [st EXCEPT
     !.pages = [k \in DOMAIN pageName |-> target = pageName[k]],
     !.links = [k \in DOMAIN navLinkText |->
                  k \in DOMAIN pageName /\ target = pageName[k]]]

\* pages.forEach from page j on: toggle the page, then links[pageIndex],
\* which is undefined beyond the last link and raises there, then scroll.
RECURSIVE walkPages(_, _, _)
walkPages(j, target, st) ==
  IF j > Len(pageName) THEN st
  ELSE LET isTargetPage == target = pageName[j]
           s1 == [st EXCEPT !.pages[j] = isTargetPage]
       IN  IF j > Len(navLinkText)
           THEN [s1 EXCEPT !.raised = TRUE]
           ELSE walkPages(j + 1, target,
                  [s1 EXCEPT !.links[j] = isTargetPage,
                             !.scroll = IF isTargetPage THEN Origin ELSE @])

NavLinkClick(i) ==
  /\ "navLink.click" \in handlers
  /\ LET st == walkPages(1, clickedPageName(i),
                 [pages |-> pageActive, links |-> navLinkActive,
                  scroll |-> scrollPos, raised |-> FALSE])
     IN  /\ pageActive' = st.pages
         /\ navLinkActive' = st.links
         /\ scrollPos' = st.scroll
         /\ errors' = IF st.raised THEN errors \cup {"navLink.click"} ELSE errors
  /\ lastEvent' = "navLink.click"
  /\ lastArg' = i
  /\ UNCHANGED <<formVars, revealVars,
                 missing, scriptRun, handlers, domReady, loaderVars,
                 sidebarActive, sidebarHist, modalVars, selectActive, filterVars,
                 navLinkText, pageName>>

\* The user scrolls down the page.
UserScroll ==
  /\ scriptRun
  /\ scrollPos = Origin
  /\ scrollPos' = ScrolledDown
  /\ lastEvent' = "scroll"
  /\ lastArg' = 0
  /\ UNCHANGED <<formVars, revealVars,
                 startupVars, loaderVars, sidebarActive, sidebarHist, modalVars,
                 selectActive, filterVars, navLinkText, pageName,
                 navLinkActive, pageActive>>

\* ----------------------------------------------------------- contact form

\* form.checkValidity(): every field of the form is valid.
checkValidity(valid) == \A k \in DOMAIN valid : valid[k]

\* The assignment that copies the validity to the disabled flag.
submitDisabledIfValid(valid) == checkValidity(valid)

\* submitBtn.disabled = !container.checkValidity().
submitDisabledFor(valid) == ~checkValidity(valid)

\* An input event on field i, whose new value is valid or not.
FormInput(i, v) ==
  /\ "input.input" \in handlers
  /\ fieldValid' = [fieldValid EXCEPT ![i] = v]
  /\ submitDisabled' = submitDisabledFor(fieldValid')
  /\ lastEvent' = "input.input"
  /\ lastArg' = i
  /\ UNCHANGED <<revealVars, startupVars, loaderVars, sidebarActive,
                 sidebarHist, modalVars, selectActive, filterVars, navVars>>

\* ------------------------------------------------------- scroll animations

\* The callback that sets the marker to what the entry reports.
observerCallbackToggle(entries, vis) ==
  [it \in DOMAIN vis |->
     IF it \in DOMAIN entries THEN entries[it] ELSE vis[it]]

\* entries.forEach: classList.add("visible") on every intersecting target.
observerCallback(entries, vis) ==
  [it \in DOMAIN vis |->
     IF it \in DOMAIN entries /\ entries[it] THEN TRUE ELSE vis[it]]

\* The observer reports a batch of entries for elements it watches.
ObserverCallback(entries) ==
  /\ observing
  /\ visible' = observerCallback(entries, visible)
  /\ lastEntries' = entries
  /\ lastEvent' = "intersection"
  /\ lastArg' = 0
  /\ UNCHANGED <<formVars, observing, revealStyle, startupVars, loaderVars,
                 sidebarActive, sidebarHist, modalVars, selectActive,
                 filterVars, navVars>>

\* --------------------------------------------------------- initial states

\* Before the script runs: nothing registered, the spinner showing.
InitStartup ==
  /\ scriptRun = FALSE
  /\ handlers = {}
  /\ errors = {}
  /\ domReady = FALSE
  /\ loadFired = FALSE
  /\ timer = "unset"
  /\ loaderHidden = FALSE
  /\ loaderAddCalls = 0
  /\ lastEvent = "none"
  /\ lastArg = 0

\* The document as the markup contract describes it, everything closed.
InitSidebarDefault ==
  /\ sidebarActive = FALSE
  /\ sidebarInitial = FALSE
  /\ sidebarOdd = FALSE

\* The sidebar open or closed.
InitSidebarAny ==
  /\ sidebarActive \in BOOLEAN
  /\ sidebarInitial = sidebarActive
  /\ sidebarOdd = FALSE

\* The form empty and its button disabled, as the markup has it.
InitFormDefault ==
  /\ fieldValid = [k \in 1..NumFormInputs |-> FALSE]
  /\ submitDisabled = TRUE

\* Any validity of the fields, the button enabled or not.
InitFormAny ==
  /\ fieldValid \in [1..NumFormInputs -> BOOLEAN]
  /\ submitDisabled \in BOOLEAN

\* No reveal item styled, watched or marked visible yet.
InitRevealDefault ==
  /\ observing = FALSE
  /\ revealStyle = [it \in RevealItems |-> Unstyled]
  /\ visible = [it \in RevealItems |-> FALSE]
  /\ lastEntries = <<>>

InitModalDefault ==
  /\ modalActive = FALSE
  /\ overlayActive = FALSE
  /\ modalContent = InitialModalContent
  /\ clickedItem = 0
  /\ modalStartAgreed = ("overlay" \notin missing)

InitFilterDefault ==
  /\ selectActive = FALSE
  /\ selectValueText = InitialSelectValue
  /\ filterItemCategory = [k \in 1..NumFilterItems |-> <<"w","e","b">>]
  /\ filterItemActive = [k \in 1..NumFilterItems |-> TRUE]
  /\ filterBtnActive = [k \in DOMAIN FilterBtnTexts |-> k = 1]
  /\ activeFilterBtn = 0
  /\ clickedFilterBtn = 0

InitNavDefault ==
  /\ navLinkText = << <<"A","b","o","u","t">> >>
  /\ pageName = << <<"a","b","o","u","t">> >>
  /\ navLinkActive = <<TRUE>>
  /\ pageActive = <<TRUE>>
  /\ scrollPos = Origin

\* Any markers on the modal and the overlay; an absent overlay has none.
InitModalAny ==
  /\ modalActive \in BOOLEAN
  /\ overlayActive \in (IF "overlay" \in missing THEN {FALSE} ELSE BOOLEAN)
  /\ modalContent = InitialModalContent
  /\ clickedItem = 0
  /\ modalStartAgreed = ("overlay" \notin missing /\ modalActive = overlayActive)

\* Any categories and any markers on the items; the highlight, if a button
\* has it, is on the first button, the one activeFilterBtn starts at.
InitFilterAny ==
  /\ selectActive \in BOOLEAN
  /\ selectValueText = InitialSelectValue
  /\ filterItemCategory \in [1..NumFilterItems -> Categories]
  /\ filterItemActive \in [1..NumFilterItems -> BOOLEAN]
  /\ filterBtnActive \in {[k \in DOMAIN FilterBtnTexts |-> k = 1 /\ b] : b \in BOOLEAN}
  /\ activeFilterBtn = 0
  /\ clickedFilterBtn = 0

\* Any link texts and page names, of any lengths, with any markers.
InitNavAny ==
  /\ navLinkText \in NavLinkMarkups
  /\ pageName \in PageMarkups
  /\ navLinkActive \in [DOMAIN navLinkText -> BOOLEAN]
  /\ pageActive \in [DOMAIN pageName -> BOOLEAN]
  /\ scrollPos \in {Origin, ScrolledDown}

\* ---------------------------------------------------------- specifications

\* Start-up on a document that may lack required elements, the loader's two
\* dismissal paths, and the two plain toggles.
StartupInit ==
  /\ missing \in MissingSets
  /\ InitStartup /\ InitSidebarDefault /\ InitModalDefault
  /\ InitFilterDefault /\ InitNavDefault
  /\ InitFormDefault /\ InitRevealDefault

StartupNext ==
  \/ RunScript
  \/ DOMContentLoaded
  \/ WindowLoad
  \/ TimerFire
  \/ SidebarClick
  \/ SelectClick

SpecStartup == StartupInit /\ [][StartupNext]_vars

\* The browser evaluates the script, dispatches DOMContentLoaded and runs a
\* pending timer; the load event and the user's clicks may never come.
LiveStartup ==
  /\ SpecStartup
  /\ WF_vars(RunScript)
  /\ WF_vars(DOMContentLoaded)
  /\ WF_vars(TimerFire)

\* The detail modal.
ModalInit ==
  /\ missing \in MissingSets
  /\ InitStartup /\ InitSidebarDefault /\ InitModalAny
  /\ InitFilterDefault /\ InitNavDefault
  /\ InitFormDefault /\ InitRevealDefault

ModalNext ==
  \/ RunScript
  \/ \E i \in DOMAIN TechItems : ItemClick(i)
  \/ CloseBtnClick
  \/ OverlayClick

SpecModal == ModalInit /\ [][ModalNext]_vars

\* The category filter, on a complete document.
FilterInit ==
  /\ missing = {}
  /\ InitStartup /\ InitSidebarDefault /\ InitModalDefault
  /\ InitFilterAny /\ InitNavDefault
  /\ InitFormDefault /\ InitRevealDefault

FilterNext ==
  \/ RunScript
  \/ SelectClick
  \/ \E i \in DOMAIN SelectItemTexts : SelectItemClick(i)
  \/ \E i \in DOMAIN FilterBtnTexts : FilterBtnClick(i)

SpecFilter == FilterInit /\ [][FilterNext]_vars

\* The page switcher, on a complete document.
NavInit ==
  /\ missing = {}
  /\ InitStartup /\ InitSidebarDefault /\ InitModalDefault
  /\ InitFilterDefault /\ InitNavAny
  /\ InitFormDefault /\ InitRevealDefault

NavNext ==
  \/ RunScript
  \/ \E i \in DOMAIN navLinkText : NavLinkClick(i)
  \/ UserScroll

SpecNav == NavInit /\ [][NavNext]_vars

\* The sidebar toggle among the start-up events, the sidebar open or closed.
SidebarInit ==
  /\ missing \in MissingSets
  /\ InitStartup /\ InitSidebarAny /\ InitModalDefault
  /\ InitFilterDefault /\ InitNavDefault
  /\ InitFormDefault /\ InitRevealDefault

SpecSidebar == SidebarInit /\ [][StartupNext]_vars

\* The contact form.
FormInit ==
  /\ missing \in MissingSets
  /\ InitStartup /\ InitSidebarDefault /\ InitModalDefault
  /\ InitFilterDefault /\ InitNavDefault
  /\ InitFormAny /\ InitRevealDefault

FormNext ==
  \/ RunScript
  \/ \E i \in 1..NumFormInputs, v \in BOOLEAN : FormInput(i, v)
  \/ SelectClick

SpecForm == FormInit /\ [][FormNext]_vars

\* The scroll animations.
RevealNext ==
  \/ RunScript
  \/ DOMContentLoaded
  \/ \E entries \in EntryLists : ObserverCallback(entries)
  \/ SelectClick

SpecReveal == StartupInit /\ [][RevealNext]_vars

\* The whole page, on the default document: every event in any order.
Init == StartupInit

Next == StartupNext \/ ModalNext \/ FilterNext \/ NavNext

Spec == Init /\ [][Next]_vars

\* ----------------------------------------------------------------- claims

\* C1: after a dropdown-option click or a filter-button click that selects
\* category c (the clicked control's text, lower-cased), every filter item
\* carries the active marker exactly when c is "all" or the item's
\* data-category equals c, whatever the items carried before.
C1_FilterShowsExactlyCategory ==
  lastEvent \in {"selectItem.click", "filterBtn.click"} =>
    LET c == toLowerCase(IF lastEvent = "selectItem.click"
                         THEN SelectItemTexts[lastArg]
                         ELSE FilterBtnTexts[lastArg])
    IN  \A k \in DOMAIN filterItemActive :
          filterItemActive[k] <=>
            (c = <<"a","l","l">> \/ filterItemCategory[k] = c)

\* A dropdown selection of "Web" has shown a web item and hidden another.
C1_Witness ==
  /\ lastEvent = "selectItem.click"
  /\ SelectItemTexts[lastArg] = <<"W","e","b">>
  /\ \E j, k \in DOMAIN filterItemActive :
       /\ filterItemCategory[j] = <<"w","e","b">> /\ filterItemActive[j]
       /\ filterItemCategory[k] # <<"w","e","b">> /\ ~filterItemActive[k]

\* C2: once a filter button has been clicked, in every later state exactly
\* one filter button carries the highlight, and it is the button clicked
\* most recently, whatever other events have run in between.
C2_OneHighlightedButton ==
  clickedFilterBtn # 0 =>
    \A k \in DOMAIN filterBtnActive :
      filterBtnActive[k] <=> k = clickedFilterBtn

\* The third button was clicked, the first has lost the highlight, and a
\* dropdown selection has run since.
C2_Witness ==
  /\ clickedFilterBtn = 3
  /\ lastEvent = "selectItem.click"
  /\ filterBtnActive[3]
  /\ ~filterBtnActive[1]

\* C3: with as many nav links as pages and link i's lower-cased text being
\* page i's name, a click on link i leaves page i the only active page and
\* link i the only active link, and the viewport at (0,0), whatever was
\* active before.
C3_NavShowsExactlyTarget ==
  (/\ lastEvent = "navLink.click"
   /\ Len(navLinkText) = Len(pageName)
   /\ \A k \in DOMAIN pageName : toLowerCase(navLinkText[k]) = pageName[k])
  => /\ \A k \in DOMAIN pageActive : pageActive[k] <=> k = lastArg
     /\ \A k \in DOMAIN navLinkActive : navLinkActive[k] <=> k = lastArg
     /\ scrollPos = Origin

\* C3, amended: with as many nav links as pages, link i's lower-cased text
\* being page i's name and the page names pairwise distinct, a click on
\* link i leaves page i the only active page and link i the only active
\* link, and the viewport at (0,0), whatever was active before.
C3_NavShowsExactlyTargetDistinct ==
  (/\ lastEvent = "navLink.click"
   /\ Len(navLinkText) = Len(pageName)
   /\ \A k \in DOMAIN pageName : toLowerCase(navLinkText[k]) = pageName[k]
   /\ \A j, k \in DOMAIN pageName : pageName[j] = pageName[k] => j = k)
  => /\ \A k \in DOMAIN pageActive : pageActive[k] <=> k = lastArg
     /\ \A k \in DOMAIN navLinkActive : navLinkActive[k] <=> k = lastArg
     /\ scrollPos = Origin

\* The second of two corresponding links, written with a capital, was
\* clicked: its page is the active one.
C3_Witness ==
  /\ lastEvent = "navLink.click"
  /\ lastArg = 2
  /\ navLinkText = << <<"A","b","o","u","t">>, <<"B","l","o","g">> >>
  /\ pageName = << <<"a","b","o","u","t">>, <<"b","l","o","g">> >>
  /\ pageActive = <<FALSE, TRUE>>
  /\ navLinkActive = <<FALSE, TRUE>>
  /\ scrollPos = Origin

\* C4: on a complete document whose modal and overlay markers agree, right
\* after a technology-item click both the modal container and the overlay
\* carry the active marker, also when the modal was already shown.
C4_ItemClickReveals ==
  (lastEvent = "item.click" /\ missing = {} /\ modalActive = overlayActive)
  => (modalActive /\ overlayActive)

\* C5: on a complete document whose modal and overlay markers agree, right
\* after a click on the close control or on the overlay neither the modal
\* container nor the overlay carries the active marker, also when the
\* modal was already hidden.
C5_CloseClickHides ==
  (/\ lastEvent \in {"closeBtn.click", "overlay.click"}
   /\ missing = {}
   /\ modalActive = overlayActive)
  => (~modalActive /\ ~overlayActive)

\* C6: after a technology-item click the modal's image src, image alt,
\* title markup and text markup are those of the item clicked most
\* recently, and a click on the close control or on the overlay changes
\* none of the four.
C6_ModalShowsClickedItem ==
  [][/\ clickedItem' # 0 =>
          /\ srcProperty(modalContent'.src) = srcProperty(TechItems[clickedItem'].src)
          /\ modalContent'.alt = TechItems[clickedItem'].alt
          /\ modalContent'.title = TechItems[clickedItem'].title
          /\ modalContent'.text = TechItems[clickedItem'].text
     /\ lastEvent' \in {"closeBtn.click", "overlay.click"} =>
          modalContent' = modalContent]_vars

\* The first item, whose avatar has a relative src, was clicked last and the
\* modal has been closed since: it still holds that item's fields.
C6_Witness ==
  /\ clickedItem = 1
  /\ lastEvent = "closeBtn.click"
  /\ modalContent.alt = "React"
  /\ modalContent.src = [abs |-> TRUE, path |-> "react.svg"]
  /\ modalContent.src # TechItems[1].src
  /\ ~modalActive

C8_LoaderDismissedOnce ==
  [][/\ loaderHidden => loaderHidden'
     /\ (lastEvent' = "timer" /\ loadFired /\ "loader" \notin missing) =>
          /\ loaderHidden
          /\ loaderHidden'
          /\ loaderAddCalls' = loaderAddCalls
     /\ (lastEvent' \in {"load", "timer"} /\ "loader" \in missing) =>
          /\ loaderHidden' = loaderHidden
          /\ loaderAddCalls' = loaderAddCalls
          /\ errors' = errors]_vars

\* The load event hid the loader, and the timer then fired without another
\* classList.add.
C8_Witness ==
  /\ "loader" \notin missing
  /\ lastEvent = "timer"
  /\ loadFired
  /\ loaderHidden
  /\ loaderAddCalls = 1

C10_OptionClickCloses ==
  lastEvent = "selectItem.click" => ~selectActive

\* C11: the two filter surfaces are not synchronized: a dropdown-option
\* click leaves every filter button's highlight and the tracked
\* active-filter-button reference unchanged, and a filter-button click leaves
\* the dropdown's displayed label and its open/closed marker unchanged.
C11_SurfacesIndependent ==
  [][/\ lastEvent' = "selectItem.click" =>
          /\ filterBtnActive' = filterBtnActive
          /\ activeFilterBtn' = activeFilterBtn
     /\ lastEvent' = "filterBtn.click" =>
          /\ selectValueText' = selectValueText
          /\ selectActive' = selectActive]_vars

\* C11, as the code has it: a dropdown-option click leaves the highlights and
\* the tracked reference unchanged; a filter-button click leaves the
\* dropdown's open/closed marker unchanged and sets the displayed label to
\* the clicked button's text.
C11_ButtonClickSetsLabel ==
  [][/\ lastEvent' = "selectItem.click" =>
          /\ filterBtnActive' = filterBtnActive
          /\ activeFilterBtn' = activeFilterBtn
     /\ lastEvent' = "filterBtn.click" =>
          /\ selectValueText' = FilterBtnTexts[lastArg']
          /\ selectActive' = selectActive]_vars

\* A button click on an open dropdown wrote the label and left it open.
C11_Witness ==
  /\ lastEvent = "filterBtn.click"
  /\ selectActive
  /\ selectValueText = FilterBtnTexts[lastArg]
  /\ selectValueText # InitialSelectValue

\* The clicked link's text matches no page section's identifier in the step.
NoPageMatches ==
  /\ lastEvent' = "navLink.click"
  /\ \A j \in DOMAIN pageName : pageName[j] # toLowerCase(navLinkText[lastArg'])

\* What C12 promises of such a step: every page section inactive, every nav
\* link at an index that has a page inactive, the scroll position untouched.
AllDeactivatedNoScroll ==
  /\ \A j \in DOMAIN pageName : ~pageActive'[j]
  /\ \A j \in DOMAIN navLinkText \cap DOMAIN pageName : ~navLinkActive'[j]
  /\ scrollPos' = scrollPos

\* C12: if a clicked nav link's lower-cased text matches no page section's
\* identifier, then after the handler every page section is inactive, every
\* nav link at an index that has a page is inactive, and no scroll to the
\* origin has occurred.
C12_NoMatchDeactivatesAll ==
  [][NoPageMatches => AllDeactivatedNoScroll]_vars

\* C12, provided at most one page section lies beyond the last nav link:
\* the walk stops at the first page without a link, after deactivating it.
C12_NoMatchDeactivatesAllWithinLinks ==
  [][NoPageMatches /\ Len(pageName) <= Len(navLinkText) + 1
       => AllDeactivatedNoScroll]_vars

\* A click that matched no page, on a page scrolled down, with one page
\* more than links: everything is inactive and the position is kept.
C12_Witness ==
  /\ lastEvent = "navLink.click"
  /\ \A j \in DOMAIN pageName : pageName[j] # toLowerCase(navLinkText[lastArg])
  /\ Len(pageName) = Len(navLinkText) + 1
  /\ \A j \in DOMAIN pageName : ~pageActive[j]
  /\ \A j \in DOMAIN navLinkText : ~navLinkActive[j]
  /\ scrollPos = ScrolledDown

\* C13: after every input event on a form field, the submit control's
\* disabled flag equals the negation of the form's overall validity at that
\* moment, for every combination of field validity states.
C13_DisabledIsNotValid ==
  lastEvent = "input.input" =>
    (submitDisabled <=> ~(\A k \in 1..NumFormInputs : fieldValid[k]))

\* An input event made the last invalid field valid and enabled the button.
C13_Witness ==
  /\ lastEvent = "input.input"
  /\ \A k \in 1..NumFormInputs : fieldValid[k]
  /\ ~submitDisabled

\* Everything on the page but the sidebar's marker and the history
\* variables that follow the clicks.
exceptSidebar ==
  <<startupVars, loaderVars, modalVars, selectActive, filterVars, navVars,
    formVars, revealVars>>

\* C14: each click on the sidebar toggle flips the sidebar container's
\* active marker and nothing else; no other event changes the marker, so two
\* consecutive clicks restore it and an odd number of clicks leaves it
\* negated.
C14_ClickFlipsSidebarOnly ==
  /\ [][IF lastEvent' = "toggleBtn.click"
        THEN /\ sidebarActive' = ~sidebarActive
             /\ UNCHANGED exceptSidebar
        ELSE sidebarActive' = sidebarActive]_vars
  /\ [](sidebarActive = IF sidebarOdd THEN ~sidebarInitial ELSE sidebarInitial)

\* An even, positive number of clicks on a sidebar that started open: it is
\* open again.
C14_Witness ==
  /\ lastEvent = "toggleBtn.click"
  /\ ~sidebarOdd
  /\ sidebarInitial
  /\ sidebarActive

\* C15: for every observed element the visible marker is added only in an
\* observer callback that reports the element as intersecting, and once
\* added it is never removed, neither by a later report that the element
\* left the viewport nor by any other event.
C15_VisibleAddedOnIntersectionAndKept ==
  [][\A it \in RevealItems :
       /\ visible[it] => visible'[it]
       /\ (~visible[it] /\ visible'[it]) =>
            /\ lastEvent' = "intersection"
            /\ it \in DOMAIN lastEntries'
            /\ lastEntries'[it]]_vars

\* The observer reported a visible element as having left the viewport, and
\* the element is still marked.
C15_Witness ==
  /\ lastEvent = "intersection"
  /\ \E it \in DOMAIN lastEntries : ~lastEntries[it] /\ visible[it]

\* C16: provided the modal container and the overlay start with the same
\* active-marker value, in every state reached by item, close-control and
\* overlay clicks the modal container carries the marker if and only if the
\* overlay does.
C16_ModalAndOverlayAgree ==
  modalStartAgreed => (modalActive <=> overlayActive)

\* After an item click and further clicks on the close control or the
\* overlay, both carry the marker.
C16_Witness ==
  /\ modalStartAgreed
  /\ clickedItem # 0
  /\ lastEvent \in {"closeBtn.click", "overlay.click"}
  /\ modalActive
  /\ overlayActive

\* In the step, link i and page i carry the same marker, and carry it
\* exactly when page i's identifier is the clicked link's lower-cased text;
\* an index without a nav link has no active link.
LinkFollowsPage(i) ==
  LET linkActive == i \in DOMAIN navLinkText /\ navLinkActive'[i]
  IN  /\ linkActive <=> pageActive'[i]
      /\ linkActive <=> pageName[i] = toLowerCase(navLinkText[lastArg'])

\* In the step, the nav links beyond the last page keep their markers.
LinksBeyondPagesKept ==
  \A i \in DOMAIN navLinkText \ DOMAIN pageName :
    navLinkActive'[i] = navLinkActive[i]

\* C17: after any nav-link click, for every index i that has a page
\* section, nav link i is active if and only if page section i is active
\* (the highlighted link is the one at the matched page's index, whichever
\* link was clicked), and nav links beyond the last page are left unchanged.
C17_LinkFollowsPage ==
  [][lastEvent' = "navLink.click" =>
       /\ \A i \in DOMAIN pageName : LinkFollowsPage(i)
       /\ LinksBeyondPagesKept]_vars

\* C17 for the indices that have both a page section and a nav link.
C17_LinkFollowsPageWhereBothExist ==
  [][lastEvent' = "navLink.click" =>
       /\ \A i \in DOMAIN pageName \cap DOMAIN navLinkText : LinkFollowsPage(i)
       /\ LinksBeyondPagesKept]_vars

\* A click on the first link highlighted the second: the matched page is
\* the second one.
C17_Witness ==
  /\ lastEvent = "navLink.click"
  /\ lastArg = 1
  /\ Len(navLinkText) = 2
  /\ Len(pageName) = 2
  /\ pageActive = <<FALSE, TRUE>>
  /\ navLinkActive = <<FALSE, TRUE>>

====
